---- MODULE Spec2Model ----
(***************************************************************************)
(* Model of packages/driver/src/reflection/analyzeQuery.ts: the query      *)
(* analyzer (analyzeQuery, parseQuery), the cardinality wrapper            *)
(* (applyCardinalityToTsType) and the codec walker (walkCodec).            *)
(*                                                                         *)
(* A TypeScript type string is modelled as the sequence of the pieces the  *)
(* template literals concatenate, so "string[]" is <<"string", "[]">>.     *)
(* A call that may throw returns a record [ok, sig, err, imports, visits]: *)
(* ok = FALSE stands for the thrown Error, whose message is err.           *)
(***************************************************************************)
EXTENDS Integers, Sequences, FiniteSets, TLC

(***************************************************************************)
(* Bounds of the model.                                                    *)
(***************************************************************************)
MaxDepth == 2
QueryDepth == 1
NumInvocations == 2
PoolSize == 2

(***************************************************************************)
(* Cardinality (../ifaces, ../codecs/consts).  NO_RESULT is the member of  *)
(* the Cardinality enum that applyCardinalityToTsType has no case for.     *)
(***************************************************************************)
ONE == "ONE"
AT_MOST_ONE == "AT_MOST_ONE"
MANY == "MANY"
AT_LEAST_ONE == "AT_LEAST_ONE"
NO_RESULT == "NO_RESULT"
CardinalityValues == {ONE, AT_MOST_ONE, MANY, AT_LEAST_ONE, NO_RESULT}

(***************************************************************************)
(* Results of calls that may throw.                                        *)
(***************************************************************************)
Return(sig, imports, visits) ==
  [ok |-> TRUE, sig |-> sig, err |-> <<>>, imports |-> imports, visits |-> visits]

Throw(err, imports, visits) ==
  [ok |-> FALSE, sig |-> <<>>, err |-> err, imports |-> imports, visits |-> visits]

(***************************************************************************)
(* applyCardinalityToTsType(type, cardinality)                             *)
(***************************************************************************)
applyCardinalityNoParens(type, cardinality) ==
  CASE cardinality = MANY -> Return(type \o <<"[]">>, {}, {})
    [] cardinality = ONE -> Return(type, {}, {})
    [] cardinality = AT_MOST_ONE -> Return(type \o <<" | null">>, {}, {})
    [] cardinality = AT_LEAST_ONE ->
         Return(<<"[">> \o type \o <<", ...">> \o type \o <<"[]]">>, {}, {})
    [] OTHER -> Throw(<<"unexpected cardinality: ", cardinality>>, {}, {})

applyCardinalityToTsType(type, cardinality) ==
  CASE cardinality = MANY -> Return(type \o <<"[]">>, {}, {})
    [] cardinality = ONE -> Return(type, {}, {})
    [] cardinality = AT_MOST_ONE -> Return(type \o <<" | null">>, {}, {})
    [] cardinality = AT_LEAST_ONE ->
         Return(<<"[(">> \o type \o <<"), ...(">> \o type \o <<")[]]">>, {}, {})
    [] OTHER -> Throw(<<"unexpected cardinality: ", cardinality>>, {}, {})

(***************************************************************************)
(* Codecs.  One record shape for every kind; a kind reads only its own     *)
(* fields.  "SparseObject" stands for a codec class walkCodec has no       *)
(* branch for.                                                             *)
(***************************************************************************)
Codec(kind, tsType, importedType, values, fields, names, subcodecs) ==
  [kind |-> kind, tsType |-> tsType, importedType |-> importedType,
   values |-> values, fields |-> fields, names |-> names,
   subcodecs |-> subcodecs]

NullCodec == Codec("Null", "", FALSE, <<>>, <<>>, <<>>, <<>>)
ScalarCodec(tsType, importedType) ==
  Codec("Scalar", tsType, importedType, <<>>, <<>>, <<>>, <<>>)
EnumCodec(values) == Codec("Enum", "string", FALSE, values, <<>>, <<>>, <<>>)
SparseObjectCodec == Codec("SparseObject", "", FALSE, <<>>, <<>>, <<>>, <<>>)
ObjectCodec(fields, subcodecs) ==
  Codec("Object", "", FALSE, <<>>, fields, <<>>, subcodecs)
NamedTupleCodec(names, subcodecs) ==
  Codec("NamedTuple", "", FALSE, <<>>, <<>>, names, subcodecs)
ArrayCodec(sub) == Codec("Array", "", FALSE, <<>>, <<>>, <<>>, <<sub>>)
TupleCodec(subcodecs) == Codec("Tuple", "", FALSE, <<>>, <<>>, <<>>, subcodecs)
RangeCodec(sub) == Codec("Range", "", FALSE, <<>>, <<>>, <<>>, <<sub>>)
MultiRangeCodec(sub) == Codec("MultiRange", "", FALSE, <<>>, <<>>, <<>>, <<sub>>)
SetCodec(sub) == Codec("Set", "", FALSE, <<>>, <<>>, <<>>, <<sub>>)

\* codec instanceof ScalarCodec: EnumCodec extends ScalarCodec
instanceofScalarCodec(codec) == codec.kind \in {"Scalar", "Enum"}

(***************************************************************************)
(* String helpers of the template literals.                                *)
(***************************************************************************)
\* JSON.stringify(s) of a string without characters to escape
JSONstringify(s) == <<"\"", s, "\"">>

\* ctx.indent: a string of 2 * n spaces
Indent(n) == [i \in 1..n |-> "  "]

RECURSIVE join(_, _)
\* parts.join(sep)
join(parts, sep) ==
  IF Len(parts) = 0 THEN <<>>
  ELSE IF Len(parts) = 1 THEN parts[1]
  ELSE parts[1] \o <<sep>> \o join(Tail(parts), sep)

\* the descriptor reached by one call of walkCodec, with the context it saw
Visit(codec, ctx) ==
  [kind |-> codec.kind, tsType |-> codec.tsType,
   importedType |-> codec.importedType, indent |-> ctx.indent,
   optionalNulls |-> ctx.optionalNulls, readonly |-> ctx.readonly]

(***************************************************************************)
(* Pieces of walkCodec.                                                    *)
(***************************************************************************)
\* lines 110-112: if (codec.importedType) ctx.imports.add(codec.tsType)
scalarImportsAlways(codec, imports) == imports \cup {codec.tsType}

scalarImports(codec, imports) ==
  IF codec.importedType THEN imports \cup {codec.tsType} ELSE imports

\* line 108
enumType(values) ==
  <<"(">> \o join([i \in 1..Len(values) |-> JSONstringify(values[i])], " | ")
          \o <<")">>

\* lines 116-119
getFields(codec) ==
  IF codec.kind = "Object" THEN codec.fields
  ELSE [i \in 1..Len(codec.names) |->
          [name |-> codec.names[i], cardinality |-> ONE]]

\* line 126: the cardinalities under which a SetCodec is unwrapped
setCardinalityAny(cardinality) == TRUE

setCardinalityOk(cardinality) ==
  cardinality = MANY \/ cardinality = AT_LEAST_ONE

\* line 133: the "?" after the key
optionalMarker(ctx, cardinality) ==
  IF ctx.optionalNulls /\ cardinality = AT_MOST_ONE THEN <<"?">> ELSE <<>>

\* lines 134-137: the field's value type from the walked subcodec's type
fieldTypeNoNullWhenOptional(ctx, type, cardinality) ==
  IF ctx.optionalNulls /\ cardinality = AT_MOST_ONE
  THEN Return(type, {}, {})
  ELSE applyCardinalityToTsType(type, cardinality)

fieldType(ctx, type, cardinality) ==
  applyCardinalityToTsType(type, cardinality)

\* line 135: { ...ctx, indent: ctx.indent + "  " }
fieldCtx(ctx, imports) ==
  [ctx EXCEPT !.indent = @ + 1, !.imports = imports]

\* lines 145, 151, 160, 168: ctx passed on as it is
sameCtxNotReadonly(ctx, imports) ==
  [ctx EXCEPT !.readonly = FALSE, !.imports = imports]

sameCtx(ctx, imports) == [ctx EXCEPT !.imports = imports]

\* lines 140, 143, 149
readonlyObject(ctx, objectShape) ==
  IF ctx.readonly THEN <<"Readonly<">> \o objectShape \o <<">">>
  ELSE objectShape

readonlyPrefix(ctx) == IF ctx.readonly THEN <<"readonly ">> ELSE <<>>

\* lines 156-160 and 164-168, given the walk of the subcodec
rangeTypeImportFirst(name, codec, ctx, sub) ==
  IF ~instanceofScalarCodec(codec.subcodecs[1])
  THEN Throw(IF name = "Range"
             THEN <<"expected range subtype to be scalar type">>
             ELSE <<"expected multirange subtype to be scalar type">>,
             ctx.imports \cup {name}, {Visit(codec, ctx)})
  ELSE Return(<<name, "<">> \o sub.sig \o <<">">>, sub.imports,
              {Visit(codec, ctx)} \cup sub.visits)

rangeType(name, codec, ctx, sub) ==
  IF ~instanceofScalarCodec(codec.subcodecs[1])
  THEN Throw(IF name = "Range"
             THEN <<"expected range subtype to be scalar type">>
             ELSE <<"expected multirange subtype to be scalar type">>,
             ctx.imports, {Visit(codec, ctx)})
  ELSE Return(<<name, "<">> \o sub.sig \o <<">">>, sub.imports,
              {Visit(codec, ctx)} \cup sub.visits)

(***************************************************************************)
(* walkCodec(codec, ctx).  walkFields is the fields.map callback of lines  *)
(* 122-138 and walkSubcodecs the map of line 151, both from element i on;  *)
(* acc carries the parts rendered so far, and the imports and visits.      *)
(***************************************************************************)
RECURSIVE walkCodec(_, _), walkFields(_, _, _, _, _), walkSubcodecs(_, _, _, _)

walkFields(fields, subCodecs, i, ctx, acc) ==
  IF i > Len(fields) THEN acc
  ELSE
    LET field == fields[i]
        isSet == subCodecs[i].kind = "Set"
    IN
    IF isSet /\ ~setCardinalityOk(field.cardinality)
    THEN Throw(<<"subcodec is SetCodec, but upper cardinality is one">>,
               acc.imports, acc.visits)
    ELSE
      LET subCodec == IF isSet THEN subCodecs[i].subcodecs[1] ELSE subCodecs[i]
          sub == walkCodec(subCodec, fieldCtx(ctx, acc.imports))
          wrapped == fieldType(ctx, sub.sig, field.cardinality)
          visits == acc.visits \cup sub.visits
      IN
      IF ~sub.ok THEN Throw(sub.err, sub.imports, visits)
      ELSE IF ~wrapped.ok THEN Throw(wrapped.err, sub.imports, visits)
      ELSE walkFields(fields, subCodecs, i + 1, ctx,
             Return(Append(acc.sig,
                      Indent(ctx.indent) \o <<"  ">>
                        \o JSONstringify(field.name)
                        \o optionalMarker(ctx, field.cardinality)
                        \o <<": ">> \o wrapped.sig \o <<";">>),
                    sub.imports, visits))

walkSubcodecs(subCodecs, i, ctx, acc) ==
  IF i > Len(subCodecs) THEN acc
  ELSE
    LET sub == walkCodec(subCodecs[i], sameCtx(ctx, acc.imports))
        visits == acc.visits \cup sub.visits
    IN
    IF ~sub.ok THEN Throw(sub.err, sub.imports, visits)
    ELSE walkSubcodecs(subCodecs, i + 1, ctx,
           Return(Append(acc.sig, sub.sig), sub.imports, visits))

walkCodec(codec, ctx) ==
  LET here == {Visit(codec, ctx)} IN
  IF codec.kind = "Null" THEN Return(<<"null">>, ctx.imports, here)
  ELSE IF instanceofScalarCodec(codec) THEN
    IF codec.kind = "Enum"
    THEN Return(enumType(codec.values), ctx.imports, here)
    ELSE Return(<<codec.tsType>>, scalarImports(codec, ctx.imports), here)
  ELSE IF codec.kind \in {"Object", "NamedTuple"} THEN
    LET r == walkFields(getFields(codec), codec.subcodecs, 1, ctx,
                        Return(<<>>, ctx.imports, here))
    IN
    IF ~r.ok THEN r
    ELSE Return(readonlyObject(ctx,
                  <<"{\n">> \o join(r.sig, "\n") \o <<"\n">>
                    \o Indent(ctx.indent) \o <<"}">>),
                r.imports, r.visits)
  ELSE IF codec.kind = "Array" THEN
    LET sub == walkCodec(codec.subcodecs[1], sameCtx(ctx, ctx.imports)) IN
    IF ~sub.ok THEN Throw(sub.err, sub.imports, here \cup sub.visits)
    ELSE Return(readonlyPrefix(ctx) \o sub.sig \o <<"[]">>, sub.imports,
                here \cup sub.visits)
  ELSE IF codec.kind = "Tuple" THEN
    LET r == walkSubcodecs(codec.subcodecs, 1, ctx,
                           Return(<<>>, ctx.imports, here))
    IN
    IF ~r.ok THEN r
    ELSE Return(readonlyPrefix(ctx) \o <<"[">> \o join(r.sig, ", ") \o <<"]">>,
                r.imports, r.visits)
  ELSE IF codec.kind = "Range" THEN
    rangeType("Range", codec, ctx,
              walkCodec(codec.subcodecs[1],
                        sameCtx(ctx, ctx.imports \cup {"Range"})))
  ELSE IF codec.kind = "MultiRange" THEN
    rangeType("MultiRange", codec, ctx,
              walkCodec(codec.subcodecs[1],
                        sameCtx(ctx, ctx.imports \cup {"MultiRange"})))
  ELSE Throw(<<"Unexpected codec kind: ", codec.kind>>, ctx.imports, here)

(***************************************************************************)
(* The codecs the model walks: every tree of nesting depth <= d over the   *)
(* leaves and a Set of a scalar.  An object, named tuple or tuple has a    *)
(* first subcodec from the level below, alone or followed by one further   *)
(* subcodec.                                                               *)
(***************************************************************************)
Leaves ==
  {NullCodec, ScalarCodec("string", FALSE), ScalarCodec("Duration", TRUE),
   EnumCodec(<<"a", "b">>), SparseObjectCodec}

\* second fields of an object or named tuple, second elements of a tuple
FieldSiblings ==
  {[cardinality |-> AT_MOST_ONE, codec |-> ScalarCodec("Duration", TRUE)]}

ElementSiblings ==
  {ScalarCodec("Duration", TRUE), SetCodec(ScalarCodec("string", FALSE))}

RECURSIVE Codecs(_)
Codecs(d) ==
  IF d = 0 THEN Leaves \cup {SetCodec(ScalarCodec("string", FALSE))}
  ELSE LET S == Codecs(d - 1) IN
    Leaves
    \cup {ObjectCodec(<<>>, <<>>), TupleCodec(<<>>)}
    \cup {ObjectCodec(<<[name |-> "id", cardinality |-> c]>>, <<s>>) :
            c \in CardinalityValues, s \in S}
    \cup {ObjectCodec(<<[name |-> "id", cardinality |-> c],
                        [name |-> "tags", cardinality |-> f.cardinality]>>,
                      <<s, f.codec>>) :
            c \in CardinalityValues, s \in S, f \in FieldSiblings}
    \cup {NamedTupleCodec(<<"id">>, <<s>>) : s \in S}
    \cup {NamedTupleCodec(<<"id", "tags">>, <<s, f.codec>>) :
            s \in S, f \in FieldSiblings}
    \cup {TupleCodec(<<s>>) : s \in S}
    \cup {TupleCodec(<<s, e>>) : s \in S, e \in ElementSiblings}
    \cup {ArrayCodec(s) : s \in S}
    \cup {RangeCodec(s) : s \in S}
    \cup {MultiRangeCodec(s) : s \in S}
    \cup {SetCodec(s) : s \in S}

Flags == [optionalNulls : BOOLEAN, readonly : BOOLEAN]

RootCtx(optionalNulls, readonly, imports) ==
  [indent |-> 0, optionalNulls |-> optionalNulls, readonly |-> readonly,
   imports |-> imports]

NoResult == Throw(<<>>, {}, {})

(***************************************************************************)
(* What _parse may answer.  QueryResponses: every cardinality with every   *)
(* codec of depth <= QueryDepth on one side and each of Companions on the  *)
(* other.  ConcResponses: the answers of the concurrent specification.     *)
(***************************************************************************)
Response(cardinality, inCodec, outCodec) ==
  [cardinality |-> cardinality, inCodec |-> inCodec, outCodec |-> outCodec]

NoResponse == Response("none", NullCodec, NullCodec)

Pivot == RangeCodec(ScalarCodec("string", FALSE))

Companions ==
  {NullCodec, ScalarCodec("Duration", TRUE), Pivot,
   ArrayCodec(SparseObjectCodec),
   ObjectCodec(<<[name |-> "id", cardinality |-> AT_MOST_ONE],
                 [name |-> "tags", cardinality |-> MANY]>>,
               <<MultiRangeCodec(ScalarCodec("Duration", TRUE)),
                 SetCodec(ScalarCodec("string", FALSE))>>)}

QueryResponses ==
  {Response(c, pr[1], pr[2]) :
     c \in CardinalityValues,
     pr \in (Codecs(QueryDepth) \X Companions)
              \cup (Companions \X Codecs(QueryDepth))}

ConcResponses ==
  {Response(ONE, ScalarCodec("Duration", TRUE), ScalarCodec("string", FALSE)),
   Response(MANY, NullCodec, Pivot),
   Response(ONE, SetCodec(ScalarCodec("string", FALSE)),
            ScalarCodec("string", FALSE)),
   Response(NO_RESULT, NullCodec,
            MultiRangeCodec(ScalarCodec("Duration", TRUE)))}

Queries == {"select 1", "select Movie"}

Invocations == 1..NumInvocations
Holders == 1..PoolSize

\* errors the collaborators reject with
AcquireError == <<"acquireHolder rejected">>
ConnectionError == <<"_getConnection rejected">>
ParseError == <<"_parse rejected">>

NoPending == [kind |-> "none", response |-> NoResponse, err |-> <<>>]
NoQueryType ==
  [returned |-> FALSE, result |-> <<>>, args |-> <<>>, cardinality |-> "none",
   query |-> "", imports |-> {}]

(***************************************************************************)
(* State.                                                                  *)
(*   wpc, wCodec, wFlags, wCard, wResult, wWrapped: one application of     *)
(*     walkCodec and of applyCardinalityToTsType (SpecWalk).               *)
(*   pc[p]: where invocation p of analyzeQuery stands; query[p] its query. *)
(*   inUse[h]: the pool has lent holder h; holder[p]: the holder p has (0  *)
(*     for none).                                                          *)
(*   pending[p]: completion of the try block of parseQuery, kept while     *)
(*     the finally block runs.                                             *)
(*   response[p]: the tuple parseQuery resolved with.                      *)
(*   imports[s]: contents of the Set created at line 30, per Set object.   *)
(*   args[p]: the walk of the input codec; out[p]: what analyzeQuery       *)
(*     returned; error[p]: what it threw.                                  *)
(*   acquires, parses, releases, raised: history, counting the calls of    *)
(*     acquireHolder that succeeded, of _parse and of release, and keeping *)
(*     the error as it was first raised.                                   *)
(***************************************************************************)
VARIABLES
  wpc, wCodec, wFlags, wCard, wResult, wWrapped,
  pc, query, inUse, holder, pending, response, imports, args, out, error,
  acquires, parses, releases, raised

walkVars == <<wpc, wCodec, wFlags, wCard, wResult, wWrapped>>
callVars ==
  <<pc, query, inUse, holder, pending, response, imports, args, out, error,
    acquires, parses, releases, raised>>
vars == <<walkVars, callVars>>

WalkIdle ==
  /\ wpc = "idle"
  /\ wCodec = NullCodec
  /\ wFlags = [optionalNulls |-> FALSE, readonly |-> FALSE]
  /\ wCard = ONE
  /\ wResult = NoResult
  /\ wWrapped = NoResult

CallsIdle(first) ==
  /\ pc = [p \in Invocations |-> first]
  /\ inUse = [h \in Holders |-> FALSE]
  /\ holder = [p \in Invocations |-> 0]
  /\ pending = [p \in Invocations |-> NoPending]
  /\ response = [p \in Invocations |-> NoResponse]
  /\ imports = [p \in Invocations |-> {}]
  /\ args = [p \in Invocations |-> NoResult]
  /\ out = [p \in Invocations |-> NoQueryType]
  /\ error = [p \in Invocations |-> <<>>]
  /\ acquires = [p \in Invocations |-> 0]
  /\ parses = [p \in Invocations |-> 0]
  /\ releases = [p \in Invocations |-> 0]
  /\ raised = [p \in Invocations |-> <<>>]

(***************************************************************************)
(* SpecWalk: walkCodec and applyCardinalityToTsType as functions.          *)
(***************************************************************************)
InitWalk ==
  /\ wpc = "start"
  /\ wCodec \in Codecs(MaxDepth)
  /\ wFlags = [optionalNulls |-> FALSE, readonly |-> FALSE]
  /\ wCard = ONE
  /\ wResult = NoResult
  /\ wWrapped = NoResult
  /\ query = [p \in Invocations |-> "select 1"]
  /\ CallsIdle("idle")

Walk ==
  /\ wpc = "start"
  /\ \E f \in Flags :
       /\ wFlags' = f
       /\ wResult' = walkCodec(wCodec, RootCtx(f.optionalNulls, f.readonly, {}))
  /\ wpc' = "walked"
  /\ UNCHANGED <<wCodec, wCard, wWrapped, callVars>>

Wrap ==
  /\ wpc = "walked"
  /\ wResult.ok
  /\ \E c \in CardinalityValues :
       /\ wCard' = c
       /\ wWrapped' = applyCardinalityToTsType(wResult.sig, c)
  /\ wpc' = "wrapped"
  /\ UNCHANGED <<wCodec, wFlags, wResult, callVars>>

NextWalk == Walk \/ Wrap

SpecWalk == InitWalk /\ [][NextWalk]_vars

(***************************************************************************)
(* parseQuery(client, query), lines 57-72, for invocation p.  Each await   *)
(* is a step.  acquireHolder, _getConnection and _parse may reject;        *)
(* release(), called on a holder that is in use, is taken to resolve.      *)
(***************************************************************************)
\* line 60: pool.acquireHolder resolves with a holder the pool has free
Acquire(p) ==
  /\ pc[p] = "start"
  /\ \E h \in Holders :
       /\ ~inUse[h]
       /\ inUse' = [inUse EXCEPT ![h] = TRUE]
       /\ holder' = [holder EXCEPT ![p] = h]
  /\ acquires' = [acquires EXCEPT ![p] = @ + 1]
  /\ pc' = [pc EXCEPT ![p] = "acquired"]
  /\ UNCHANGED <<walkVars, query, pending, response, imports, args, out,
                 error, parses, releases, raised>>

\* line 60: pool.acquireHolder rejects, outside the try block
AcquireFail(p) ==
  /\ pc[p] = "start"
  /\ raised' = [raised EXCEPT ![p] = AcquireError]
  /\ error' = [error EXCEPT ![p] = AcquireError]
  /\ pc' = [pc EXCEPT ![p] = "failed"]
  /\ UNCHANGED <<walkVars, query, inUse, holder, pending, response, imports,
                 args, out, acquires, parses, releases>>

\* line 62: holder._getConnection() resolves
GetConnection(p) ==
  /\ pc[p] = "acquired"
  /\ pc' = [pc EXCEPT ![p] = "connected"]
  /\ UNCHANGED <<walkVars, query, inUse, holder, pending, response, imports,
                 args, out, error, acquires, parses, releases, raised>>

\* line 62 rejects without the finally block: the error leaves parseQuery
GetConnectionFailNoFinally(p) ==
  /\ pc[p] = "acquired"
  /\ raised' = [raised EXCEPT ![p] = ConnectionError]
  /\ error' = [error EXCEPT ![p] = ConnectionError]
  /\ pc' = [pc EXCEPT ![p] = "failed"]
  /\ UNCHANGED <<walkVars, query, inUse, holder, pending, response, imports,
                 args, out, acquires, parses, releases>>

\* line 62: holder._getConnection() rejects; control goes to finally
GetConnectionFail(p) ==
  /\ pc[p] = "acquired"
  /\ raised' = [raised EXCEPT ![p] = ConnectionError]
  /\ pending' = [pending EXCEPT ![p] =
                   [kind |-> "throw", response |-> NoResponse,
                    err |-> ConnectionError]]
  /\ pc' = [pc EXCEPT ![p] = "releasing"]
  /\ UNCHANGED <<walkVars, query, inUse, holder, response, imports, args, out,
                 error, acquires, parses, releases>>

\* lines 63-68: cxn._parse resolves with some r of R; control goes to finally
ParseOk(p, R) ==
  /\ pc[p] = "connected"
  /\ \E r \in R :
       pending' = [pending EXCEPT ![p] =
                     [kind |-> "return", response |-> r, err |-> <<>>]]
  /\ parses' = [parses EXCEPT ![p] = @ + 1]
  /\ pc' = [pc EXCEPT ![p] = "releasing"]
  /\ UNCHANGED <<walkVars, query, inUse, holder, response, imports, args, out,
                 error, acquires, releases, raised>>

\* lines 63-68 with a retry: the request is issued again after a rejection
ParseFailRetry(p) ==
  /\ pc[p] = "connected"
  /\ parses[p] < 3
  /\ parses' = [parses EXCEPT ![p] = @ + 1]
  /\ raised' = [raised EXCEPT ![p] = ParseError]
  /\ UNCHANGED <<walkVars, pc, query, inUse, holder, pending, response,
                 imports, args, out, error, acquires, releases>>

\* lines 63-68: cxn._parse rejects; control goes to finally
ParseFail(p) ==
  /\ pc[p] = "connected"
  /\ parses' = [parses EXCEPT ![p] = @ + 1]
  /\ raised' = [raised EXCEPT ![p] = ParseError]
  /\ pending' = [pending EXCEPT ![p] =
                   [kind |-> "throw", response |-> NoResponse,
                    err |-> ParseError]]
  /\ pc' = [pc EXCEPT ![p] = "releasing"]
  /\ UNCHANGED <<walkVars, query, inUse, holder, response, imports, args, out,
                 error, acquires, releases>>

\* line 70: the holder release() is called on
releasedHolder(p) == holder[p]

\* lines 69-71: finally { await holder.release() }, then the pending
\* completion of the try block takes effect
Release(p) ==
  /\ pc[p] = "releasing"
  /\ inUse' = [inUse EXCEPT ![releasedHolder(p)] = FALSE]
  /\ holder' = [holder EXCEPT ![p] = 0]
  /\ releases' = [releases EXCEPT ![p] = @ + 1]
  /\ pending' = [pending EXCEPT ![p] = NoPending]
  /\ IF pending[p].kind = "return"
     THEN /\ response' = [response EXCEPT ![p] = pending[p].response]
          /\ pc' = [pc EXCEPT ![p] = "parsed"]
          /\ UNCHANGED error
     ELSE /\ error' = [error EXCEPT ![p] = pending[p].err]
          /\ pc' = [pc EXCEPT ![p] = "failed"]
          /\ UNCHANGED response
  /\ UNCHANGED <<walkVars, query, imports, args, out, acquires, parses, raised>>

(***************************************************************************)
(* analyzeQuery(client, query), lines 24-55, after parseQuery resolved.    *)
(* Lines 30-54 run without suspension; the model shows the state between   *)
(* the two walks.                                                          *)
(***************************************************************************)
\* line 30: the Set this invocation's walks write to
importsOfShared(p) == 1

importsOf(p) == p

\* lines 31-36
argsCtx(set) == RootCtx(TRUE, TRUE, set)

\* lines 39-44
resultCtxOptionalNulls(set) == RootCtx(TRUE, FALSE, set)

resultCtx(set) == RootCtx(FALSE, FALSE, set)

\* lines 30-36: const imports = new Set(); const args = walkCodec(inCodec, ..)
WalkArgs(p) ==
  /\ pc[p] = "parsed"
  /\ \E r \in {walkCodec(response[p].inCodec, argsCtx(imports[importsOf(p)]))} :
       /\ imports' = [imports EXCEPT ![importsOf(p)] = r.imports]
       /\ args' = [args EXCEPT ![p] = r]
       /\ IF r.ok
          THEN /\ pc' = [pc EXCEPT ![p] = "walkedArgs"]
               /\ UNCHANGED <<error, raised>>
          ELSE /\ pc' = [pc EXCEPT ![p] = "failed"]
               /\ error' = [error EXCEPT ![p] = r.err]
               /\ raised' = [raised EXCEPT ![p] = r.err]
  /\ UNCHANGED <<walkVars, query, inUse, holder, pending, response, out,
                 acquires, parses, releases>>

\* lines 38-54: the output walk, the top-level cardinality, the return
WalkResult(p) ==
  /\ pc[p] = "walkedArgs"
  /\ \E r \in {walkCodec(response[p].outCodec,
                          resultCtx(imports[importsOf(p)]))} :
     \E w \in {applyCardinalityToTsType(r.sig, response[p].cardinality)} :
       /\ imports' = [imports EXCEPT ![importsOf(p)] = r.imports]
       /\ IF r.ok /\ w.ok
          THEN /\ pc' = [pc EXCEPT ![p] = "done"]
               /\ out' = [out EXCEPT ![p] =
                            [returned |-> TRUE, result |-> w.sig,
                             args |-> args[p].sig,
                             cardinality |-> response[p].cardinality,
                             query |-> query[p],
                             imports |-> r.imports]]
               /\ UNCHANGED <<error, raised>>
          ELSE /\ pc' = [pc EXCEPT ![p] = "failed"]
               /\ error' = [error EXCEPT ![p] = IF r.ok THEN w.err ELSE r.err]
               /\ raised' = [raised EXCEPT ![p] = IF r.ok THEN w.err ELSE r.err]
               /\ UNCHANGED out
  /\ UNCHANGED <<walkVars, query, inUse, holder, pending, response, args,
                 acquires, parses, releases>>

\* one step of invocation p, _parse answering from R
Step(p, R) ==
  \/ Acquire(p)
  \/ AcquireFail(p)
  \/ GetConnection(p)
  \/ GetConnectionFail(p)
  \/ ParseOk(p, R)
  \/ ParseFail(p)
  \/ Release(p)
  \/ WalkArgs(p)
  \/ WalkResult(p)

(***************************************************************************)
(* Spec: NumInvocations concurrent invocations of analyzeQuery on one      *)
(* client.                                                                 *)
(***************************************************************************)
Init ==
  /\ WalkIdle
  /\ query = [p \in Invocations |->
               IF p % 2 = 1 THEN "select 1" ELSE "select Movie"]
  /\ CallsIdle("start")

Next == \E p \in Invocations : Step(p, ConcResponses)

Spec == Init /\ [][Next]_vars

(***************************************************************************)
(* SpecAnalyze: one invocation of analyzeQuery, over QueryResponses.       *)
(***************************************************************************)
InitAnalyze ==
  /\ WalkIdle
  /\ \E q \in Queries :
       query = [p \in Invocations |-> IF p = 1 THEN q ELSE "select 1"]
  /\ CallsIdle("start")

NextAnalyze == Step(1, QueryResponses)

SpecAnalyze == InitAnalyze /\ [][NextAnalyze]_vars

(***************************************************************************)
(* Vocabulary of the properties.                                           *)
(***************************************************************************)
RECURSIVE Nodes(_)
\* the descriptors of a tree
Nodes(codec) ==
  {codec} \cup UNION {Nodes(codec.subcodecs[i]) : i \in 1..Len(codec.subcodecs)}

\* the names the descriptors of a tree ask for
ImportNames(codec) ==
  {n.tsType : n \in {m \in Nodes(codec) : m.kind = "Scalar" /\ m.importedType}}
    \cup {n.kind : n \in {m \in Nodes(codec) : m.kind \in {"Range", "MultiRange"}}}

RECURSIVE Sum(_)
Sum(ns) == IF Len(ns) = 0 THEN 0 ELSE Head(ns) + Sum(Tail(ns))

RECURSIVE CountKinds(_, _)
\* how many descriptors of the given kinds the signature of a tree renders:
\* the type of an AT_LEAST_ONE field is written twice
CountKinds(codec, kinds) ==
  (IF codec.kind \in kinds THEN 1 ELSE 0)
    + Sum([i \in 1..Len(codec.subcodecs) |->
             (IF codec.kind = "Object"
                   /\ codec.fields[i].cardinality = AT_LEAST_ONE
              THEN 2 ELSE 1) * CountKinds(codec.subcodecs[i], kinds)])

\* how often a piece occurs in a signature
Count(sig, piece) == Cardinality({i \in 1..Len(sig) : sig[i] = piece})

RECURSIVE HasMisplacedSet(_, _)
\* some Set of the tree is not the subcodec of an Object field that is MANY
\* or AT_LEAST_ONE; allowed tells whether codec itself stands in such a place
HasMisplacedSet(codec, allowed) ==
  IF codec.kind = "Set"
  THEN ~allowed \/ HasMisplacedSet(codec.subcodecs[1], FALSE)
  ELSE IF codec.kind = "Object"
  THEN \E i \in 1..Len(codec.subcodecs) :
         HasMisplacedSet(codec.subcodecs[i],
                         codec.fields[i].cardinality \in {MANY, AT_LEAST_ONE})
  ELSE \E i \in 1..Len(codec.subcodecs) :
         HasMisplacedSet(codec.subcodecs[i], FALSE)

Walked == wpc \in {"walked", "wrapped"}

\* the signature of the subcodec of field i of the walked object, its Set
\* unwrapped
ChildSig(i) ==
  LET sub == wCodec.subcodecs[i]
      child == IF sub.kind = "Set" THEN sub.subcodecs[1] ELSE sub
  IN walkCodec(child, [indent |-> 1, optionalNulls |-> wFlags.optionalNulls,
                       readonly |-> wFlags.readonly, imports |-> {}]).sig

\* the fields of the walked object as rendered: the signature without the
\* Readonly< > around it, the opening and the closing brace
RenderedFields ==
  LET body == IF wFlags.readonly
              THEN SubSeq(wResult.sig, 2, Len(wResult.sig) - 1)
              ELSE wResult.sig
  IN SubSeq(body, 2, Len(body) - 2)

\* a field with the given key marker and value type
FieldText(name, optional, valueType) ==
  <<"  ", "\"", name, "\"">> \o (IF optional THEN <<"?">> ELSE <<>>)
    \o <<": ">> \o valueType \o <<";">>

ObjectWalked == Walked /\ wCodec.kind = "Object" /\ wResult.ok

C3_SetOnlyUnderManyField ==
  /\ (Walked /\ HasMisplacedSet(wCodec, FALSE)) =>
       (~wResult.ok /\ wResult.sig = <<>> /\ wResult.err # <<>>)
  /\ (ObjectWalked /\ Len(wCodec.fields) = 1
        /\ wCodec.subcodecs[1].kind = "Set") =>
       /\ wCodec.fields[1].cardinality \in {MANY, AT_LEAST_ONE}
       /\ LET child == walkCodec(wCodec.subcodecs[1].subcodecs[1],
                         [indent |-> 1, optionalNulls |-> wFlags.optionalNulls,
                          readonly |-> wFlags.readonly, imports |-> {}]).sig
          IN RenderedFields =
               <<"  ", "\"", wCodec.fields[1].name, "\"", ": ">>
                 \o (IF wCodec.fields[1].cardinality = MANY
                     THEN child \o <<"[]">>
                     ELSE <<"[(">> \o child \o <<"), ...(">> \o child
                            \o <<")[]]">>)
                 \o <<";">>
  /\ (Walked /\ ~wFlags.optionalNulls /\ ~wFlags.readonly
        /\ wCodec = ObjectCodec(<<[name |-> "id", cardinality |-> MANY]>>,
                                <<SetCodec(ScalarCodec("string", FALSE))>>)) =>
       wResult.sig = <<"{\n", "  ", "\"", "id", "\"", ": ", "string", "[]",
                       ";", "\n", "}">>

C3_Witness ==
  /\ Walked
  /\ wCodec.kind = "Object"
  /\ Len(wCodec.fields) = 1
  /\ wCodec.fields[1].cardinality = ONE
  /\ wCodec.subcodecs[1].kind = "Set"
  /\ wCodec.subcodecs[1].subcodecs[1].kind = "Scalar"
  /\ ~wResult.ok

(***************************************************************************)
(* C6: applyCardinalityToTsType(T, ONE) is T; (T, MANY) is T followed by   *)
(* "[]"; (T, AT_MOST_ONE) is T followed by " | null"; (T, AT_LEAST_ONE) is *)
(* "[(T), ...(T)[]]" with T in parentheses both times; any other           *)
(* cardinality makes it throw and return no signature.                     *)
(***************************************************************************)
C6_CardinalityWrapper ==
  wpc = "wrapped" =>
    LET T == wResult.sig
        n == Len(wResult.sig)
        W == wWrapped.sig
    IN
    /\ wCard = ONE => (wWrapped.ok /\ W = T)
    /\ wCard = MANY =>
         (wWrapped.ok /\ Len(W) = n + 1 /\ SubSeq(W, 1, n) = T
            /\ W[n + 1] = "[]")
    /\ wCard = AT_MOST_ONE =>
         (wWrapped.ok /\ Len(W) = n + 1 /\ SubSeq(W, 1, n) = T
            /\ W[n + 1] = " | null")
    /\ wCard = AT_LEAST_ONE =>
         (wWrapped.ok /\ Len(W) = 2 * n + 3
            /\ W[1] = "[(" /\ SubSeq(W, 2, n + 1) = T
            /\ W[n + 2] = "), ...(" /\ SubSeq(W, n + 3, 2 * n + 2) = T
            /\ W[2 * n + 3] = ")[]]")
    /\ wCard \notin {ONE, MANY, AT_MOST_ONE, AT_LEAST_ONE} =>
         (~wWrapped.ok /\ W = <<>> /\ wWrapped.err # <<>>)

C6_Witness ==
  /\ wpc = "wrapped"
  /\ wCard = AT_LEAST_ONE
  /\ wWrapped.ok
  /\ Count(wResult.sig, " | null") > 0

(***************************************************************************)
(* C7: a Range (MultiRange) whose subcodec is not a Scalar makes walkCodec *)
(* throw the range-subtype error, return no signature and add nothing to   *)
(* imports; one whose subcodec is a Scalar adds "Range" ("MultiRange") to  *)
(* imports and has the signature Range<child> (MultiRange<child>).         *)
(***************************************************************************)
C7_RangeSubtype ==
  LET isRange(c) == c.kind \in {"Range", "MultiRange"}
      scalar(c) == c.kind \in {"Scalar", "Enum"}
      message(c) == IF c.kind = "Range"
                    THEN <<"expected range subtype to be scalar type">>
                    ELSE <<"expected multirange subtype to be scalar type">>
      flags == [indent |-> 0, optionalNulls |-> wFlags.optionalNulls,
                readonly |-> wFlags.readonly, imports |-> {}]
  IN
  /\ (Walked /\ isRange(wCodec) /\ ~scalar(wCodec.subcodecs[1])) =>
       /\ ~wResult.ok
       /\ wResult.sig = <<>>
       /\ wResult.err = message(wCodec)
       /\ wResult.imports = {}
  /\ (Walked /\ isRange(wCodec) /\ scalar(wCodec.subcodecs[1])) =>
       /\ wResult.ok
       /\ wCodec.kind \in wResult.imports
       /\ wResult.sig = <<wCodec.kind, "<">>
                          \o walkCodec(wCodec.subcodecs[1], flags).sig
                          \o <<">">>
  \* reached below an array, or as the first element of a tuple
  /\ (Walked /\ wCodec.kind \in {"Array", "Tuple"}
        /\ Len(wCodec.subcodecs) > 0 /\ isRange(wCodec.subcodecs[1])) =>
       IF scalar(wCodec.subcodecs[1].subcodecs[1])
       THEN wCodec.subcodecs[1].kind \in wResult.imports
       ELSE /\ ~wResult.ok
            /\ wResult.sig = <<>>
            /\ wResult.err = message(wCodec.subcodecs[1])
            /\ wResult.imports = {}

C7_Witness ==
  /\ Walked
  /\ wCodec.kind = "Range"
  /\ wCodec.subcodecs[1].kind = "Object"
  /\ ~wResult.ok

(***************************************************************************)
(* C10: every descriptor of a walk sees the optionalNulls and readonly of  *)
(* the root, and the indent grows only below a record field; so a readonly *)
(* walk renders every Object and NamedTuple as Readonly<..> and every      *)
(* Array and Tuple with the readonly prefix, at any depth, and a walk      *)
(* without readonly and optionalNulls renders none of them and no "?".     *)
(***************************************************************************)
C10_FlagsInherited ==
  Walked =>
    /\ \A v \in wResult.visits :
         /\ v.optionalNulls = wFlags.optionalNulls
         /\ v.readonly = wFlags.readonly
         /\ v.indent <= CountKinds(wCodec, {"Object", "NamedTuple"})
    /\ wResult.ok =>
         /\ Count(wResult.sig, "Readonly<") =
              IF wFlags.readonly
              THEN CountKinds(wCodec, {"Object", "NamedTuple"}) ELSE 0
         /\ Count(wResult.sig, "readonly ") =
              IF wFlags.readonly
              THEN CountKinds(wCodec, {"Array", "Tuple"}) ELSE 0
         /\ ~wFlags.optionalNulls => Count(wResult.sig, "?") = 0

C10_Witness ==
  /\ Walked
  /\ wResult.ok
  /\ wFlags.readonly
  /\ wFlags.optionalNulls
  /\ wCodec.kind = "Array"
  /\ wCodec.subcodecs[1].kind = "Object"
  /\ Len(wCodec.subcodecs[1].subcodecs) = 2
  /\ Count(wResult.sig, "?") = 1

(***************************************************************************)
(* Properties of analyzeQuery and parseQuery.                              *)
(***************************************************************************)
Holding(p) == pc[p] \in {"acquired", "connected", "releasing"}
Resumed(p) == pc[p] \in {"parsed", "walkedArgs", "done", "failed"}
NegotiationErrors == {AcquireError, ConnectionError, ParseError}

\* the names the codecs of the answer to p ask for
OwnNames(p) ==
  ImportNames(response[p].inCodec) \cup ImportNames(response[p].outCodec)

(***************************************************************************)
(* C1: once acquireHolder has succeeded, the holder is released exactly    *)
(* once, after at most one _parse request, before parseQuery returns or    *)
(* rethrows, whether _getConnection fails, _parse fails or _parse          *)
(* succeeds; no walk starts while the holder is held.                      *)
(***************************************************************************)
C1_HolderReleasedOnce ==
  \A p \in Invocations :
    /\ acquires[p] <= 1
    /\ releases[p] <= acquires[p]
    /\ parses[p] <= 1
    /\ Holding(p) =>
         /\ acquires[p] = 1 /\ releases[p] = 0 /\ holder[p] # 0
         /\ args[p] = NoResult /\ imports[p] = {}
         /\ ~out[p].returned /\ error[p] = <<>>
    /\ Resumed(p) => (releases[p] = acquires[p] /\ holder[p] = 0)
    /\ (Resumed(p) /\ raised[p] \in {ConnectionError, ParseError}) =>
         releases[p] = 1
    /\ pc[p] \in {"parsed", "walkedArgs", "done"} =>
         (releases[p] = 1 /\ parses[p] = 1)

C1_Witness ==
  \E p, q \in Invocations :
    /\ pc[p] = "failed" /\ raised[p] = ConnectionError
    /\ releases[p] = 1 /\ parses[p] = 0
    /\ pc[q] = "done" /\ releases[q] = 1 /\ parses[q] = 1

C9_OwnImportsOwnHolder ==
  /\ [](\A p \in Invocations :
          /\ imports[p] \subseteq OwnNames(p)
          /\ out[p].returned => out[p].imports \subseteq OwnNames(p)
          /\ \A q \in Invocations :
               (p # q /\ holder[p] # 0) => holder[p] # holder[q])
  /\ [](\A h \in Holders : inUse[h] <=> \E p \in Invocations : holder[p] = h)
  /\ [][\A p \in Invocations :
          releases'[p] # releases[p] =>
            /\ holder[p] # 0
            /\ inUse[holder[p]]
            /\ inUse' = [inUse EXCEPT ![holder[p]] = FALSE]]_vars

C9_Witness ==
  \E p, q \in Invocations :
    /\ out[p].returned /\ out[p].imports = {"Duration"}
    /\ out[q].returned /\ out[q].imports = {"Range"}
    /\ releases[p] = 1 /\ releases[q] = 1

(***************************************************************************)
(* C4: the imports analyzeQuery returns hold a name exactly when a codec   *)
(* of the input or the output tree is a plain Scalar with importedType and *)
(* that tsType, or a Range ("Range") or a MultiRange ("MultiRange"); and   *)
(* no step removes a name from the accumulator.                            *)
(***************************************************************************)
C4_ImportsExact ==
  /\ [](\A p \in Invocations : out[p].returned => out[p].imports = OwnNames(p))
  /\ [][\A p \in Invocations : imports[p] \subseteq imports'[p]]_vars

C4_Witness ==
  /\ out[1].returned
  /\ response[1].inCodec = Pivot
  /\ response[1].outCodec = RangeCodec(ScalarCodec("Duration", TRUE))
  /\ out[1].imports = {"Range", "Duration"}
  /\ args[1].imports = {"Range"}

(***************************************************************************)
(* C5: analyzeQuery returns as result the top-level cardinality applied    *)
(* once to the walk of the output codec with optionalNulls and readonly    *)
(* off, as args the walk of the input codec with both on and no            *)
(* cardinality applied, and the negotiated cardinality and the caller's    *)
(* query as they are.                                                      *)
(***************************************************************************)
C5_ResultAndArgs ==
  \A p \in Invocations :
    out[p].returned =>
      LET walkedOut == walkCodec(response[p].outCodec, RootCtx(FALSE, FALSE, {}))
          walkedIn == walkCodec(response[p].inCodec, RootCtx(TRUE, TRUE, {}))
          c == response[p].cardinality
      IN
      /\ walkedOut.ok /\ walkedIn.ok
      /\ c \in {ONE, MANY, AT_MOST_ONE, AT_LEAST_ONE}
      /\ out[p].result =
           (IF c = ONE THEN walkedOut.sig
            ELSE IF c = MANY THEN walkedOut.sig \o <<"[]">>
            ELSE IF c = AT_MOST_ONE THEN walkedOut.sig \o <<" | null">>
            ELSE <<"[(">> \o walkedOut.sig \o <<"), ...(">> \o walkedOut.sig
                   \o <<")[]]">>)
      /\ out[p].args = walkedIn.sig
      /\ out[p].cardinality = c
      /\ out[p].query = query[p]
      /\ (c = AT_MOST_ONE /\ response[p].outCodec = ScalarCodec("string", FALSE))
           => out[p].result = <<"string", " | null">>

C5_Witness ==
  /\ out[1].returned
  /\ response[1].cardinality = AT_MOST_ONE
  /\ response[1].outCodec.kind = "Object"
  /\ Len(response[1].outCodec.fields) = 2
  /\ response[1].outCodec.fields[1].cardinality = AT_MOST_ONE
  /\ response[1].inCodec.kind = "Object"
  /\ query[1] = "select Movie"

====
